---- MODULE Spec2Model ----
(***************************************************************************)
(* Isometric Explore experience: the character controller (controls.js),   *)
(* the HUD / content panel (ui.js) and the page driver (main.js).          *)
(*                                                                         *)
(* Numbers.  The JavaScript works on IEEE doubles; the model works on      *)
(* fixed-point integers:                                                   *)
(*   positions            in 1/1000 world units  (PScale)                  *)
(*   velocities           in 1/10000 units per second (VScale)             *)
(*   time deltas          in milliseconds                                  *)
(*   the decay factor     in 1/10000 (FScale)                              *)
(* Every division rounds toward zero (Div), so the arithmetic is symmetric *)
(* under sign change like the floating-point original.                     *)
(***************************************************************************)
EXTENDS Integers, Sequences, FiniteSets, TLC

VARIABLES
    \* ---- controls.js (createControls closure) ----
    active,         \* _active
    keys,           \* _keys: [forward, backward, left, right -> BOOLEAN]
    vel,            \* _velocity: <<vx, vz>>
    pos,            \* charGroup.position: <<x, z>>  (y is written 0)
    posY,           \* charGroup.position.y
    nearest,        \* _nearestObject: 0 = null, i = interactiveObjects[i]
    capsule,        \* _capsule of the octree controller: <<x, dy, z>>, its
                    \* segment runs from (x, PLAYER_RADIUS + dy, z) to
                    \* (x, PLAYER_HEIGHT + dy, z)
    env,            \* what the environment builder and content placement
                    \* returned: bounds, obstacles, spawn, candidates
    \* ---- ui.js (setupUI closure and the DOM it drives) ----
    panelOpen,      \* let panelOpen
    iframeSrc,      \* contentIframe.src ("" = blank)
    panelHidden,    \* #content-panel has class "hidden"
    backdropHidden, \* #content-panel-backdrop has class "hidden"
    panelVisible,   \* #content-panel has class "visible"
    rafPending,     \* requestAnimationFrame callbacks queued by openContentPanel
    n100,           \* pending 100 ms timers of closeContentPanel
    n350,           \* pending 350 ms timers of closeContentPanel
    label,          \* #hud-label: 0 = hidden, i = shows candidate i
    \* ---- main.js (init closure and the DOM it drives) ----
    gameStarted,    \* let gameStarted
    canvasIsActiveElement, \* document.activeElement === renderer.domElement
    windowFocused,  \* the browser window has system focus
    hudHidden,      \* #hud has class "hidden"
    pauseShown,     \* #pause-menu lacks class "hidden"
    cam,            \* camera.position - cameraOffset: <<x, z>>
    ticks,          \* number of controls.update calls so far
    location,       \* window.location.href: "explore" or "/"
    \* ---- model-loader.js ----
    loader,         \* a call of loadModels: its manifest, the state of each
                    \* loadModel promise and of the promise it returned
    \* ---- content-objects.js ----
    content,        \* a call of placeContentObjects: arguments and result
    \* ---- observation ----
    lastOp,         \* the handler that ran last
    notified,       \* arguments of the onProximityChange calls of the last step
    arg             \* arguments of the controls.update / controls.setPosition
                    \* call of the last step (<<>> when it made neither)

ctlVars  == <<active, keys, vel, pos, posY, nearest>>
uiVars   == <<panelOpen, iframeSrc, panelHidden, backdropHidden, panelVisible,
              rafPending, n100, n350, label>>
mainVars == <<gameStarted, canvasIsActiveElement, windowFocused, hudHidden,
              pauseShown, cam>>
sideVars == <<location, loader, content>>
vars     == <<active, keys, vel, pos, posY, nearest, capsule, env,
              panelOpen, iframeSrc, panelHidden, backdropHidden, panelVisible,
              rafPending, n100, n350, label,
              gameStarted, canvasIsActiveElement, windowFocused, hudHidden,
              pauseShown, cam, ticks, location, loader, content,
              lastOp, notified, arg>>

(***************************************************************************)
(* Bounds of the exploration                                               *)
(***************************************************************************)
MaxFrames == 2      \* frames of the animation loop explored (Spec)
MaxTicks  == 2      \* controls.update calls explored (SpecCtl)
MaxTimers == 1      \* closes whose timers may be pending at once
MaxMotionTicks == 2 \* controls.update calls with free deltas and keys
                    \* before the coasting tail (SpecMotion)
StopTicks == 89     \* length of the coasting tail: the 60 Hz frames after
                    \* which MOVE_SPEED has decayed below the deadzone,
                    \* 5 * exp(-6 * 0.016 * 89) < 0.001

(***************************************************************************)
(* Fixed-point scales                                                      *)
(***************************************************************************)
PScale == 10 * 100         \* position units per world unit
VScale == 100 * 100        \* velocity units per world unit per second
FScale == 100 * 100        \* units of a factor (decay, direction component)

(***************************************************************************)
(* Constants of controls.js and main.js                                    *)
(***************************************************************************)
MOVE_SPEED        == 5 * VScale
DECELERATION      == 6
LERP_NUM          == 12            \* LERP_FACTOR = 0.12 = LERP_NUM / LERP_DEN
LERP_DEN          == 100
VELOCITY_DEADZONE == VScale \div 1000
PLAYER_RADIUS     == (3 * PScale) \div 10
PROXIMITY_RANGE   == (25 * PScale) \div 10
ISO_DIAG          == 7071          \* |component| of ISO_FORWARD, ISO_RIGHT
                                   \* (1/sqrt 2) in 1/FScale
MAX_DELTA         == 50            \* Math.min(clock.getDelta(), 0.05)
CAMERA_LERP_NUM   == 8             \* CAMERA_LERP = 0.08
CAMERA_LERP_DEN   == 100

(***************************************************************************)
(* Arithmetic helpers                                                      *)
(***************************************************************************)
Abs(a) == IF a < 0 THEN -a ELSE a

Min(a, b) == IF a < b THEN a ELSE b

Max(a, b) == IF a > b THEN a ELSE b

\* division rounding toward zero
Div(a, b) == IF a >= 0 THEN a \div b ELSE -((-a) \div b)

\* floor of the square root, by bisection on [lo, hi]
RECURSIVE SqrtBetween(_, _, _)
SqrtBetween(n, lo, hi) ==
    IF lo >= hi THEN lo
    ELSE LET mid == (lo + hi + 1) \div 2
         IN  IF mid * mid <= n THEN SqrtBetween(n, mid, hi)
                               ELSE SqrtBetween(n, lo, mid - 1)

ISqrt(n) == SqrtBetween(n, 0, 46340)

\* Math.exp(-DECELERATION * delta) in 1/FScale, delta in ms, by the
\* alternating Taylor series  sum (-x)^k / k!  with x = 6 * delta / 1000
RECURSIVE ExpSeries(_, _, _, _)
ExpSeries(x, term, k, acc) ==
    IF term = 0 \/ k > 12 THEN acc
    ELSE LET next == Div(term * x, FScale * k)
         IN  ExpSeries(x, next, k + 1,
                       IF k % 2 = 1 THEN acc - next ELSE acc + next)

\* a decay factor with the sign of the exponent lost
Decay_WrongSign(delta) ==
    Div(FScale * FScale,
        ExpSeries(Div(DECELERATION * delta * FScale, 1000), FScale, 1, FScale))

Decay(delta) ==
    ExpSeries(Div(DECELERATION * delta * FScale, 1000), FScale, 1, FScale)

(***************************************************************************)
(* Environment descriptors: what theme.builder(scene) and                  *)
(* placeContentObjects return to main.js                                   *)
(***************************************************************************)
NoBounds == [kind |-> "none", minX |-> 0, maxX |-> 0, minZ |-> 0, maxZ |-> 0,
             centerX |-> 0, centerZ |-> 0, radius |-> 0]

RectBounds(x0, x1, z0, z1) ==
    [kind |-> "rect", minX |-> x0, maxX |-> x1, minZ |-> z0, maxZ |-> z1,
     centerX |-> 0, centerZ |-> 0, radius |-> 0]

CircleBounds(cx, cz, r) ==
    [kind |-> "circle", minX |-> 0, maxX |-> 0, minZ |-> 0, maxZ |-> 0,
     centerX |-> cx, centerZ |-> cz, radius |-> r]

\* an interactive object: group.position and group.userData
Candidate(px, pz, type, u) == [x |-> px, z |-> pz, tagged |-> type, url |-> u]

\* the plaza bound shared by the cafe and the cyberpunk plaza
PlazaBounds == RectBounds(-10 * PScale, 10 * PScale, -10 * PScale, 10 * PScale)

\* the four neon pillars of the cyberpunk plaza
Pillars == << [x |-> -6 * PScale, z |-> -6 * PScale, radius |-> PScale \div 2],
              [x |->  6 * PScale, z |-> -6 * PScale, radius |-> PScale \div 2],
              [x |-> -6 * PScale, z |->  6 * PScale, radius |-> PScale \div 2],
              [x |->  6 * PScale, z |->  6 * PScale, radius |-> PScale \div 2] >>

(***************************************************************************)
(* controls.js: update(delta) and its steps                                *)
(***************************************************************************)
\* _direction before normalize(), in units of one basis component
RawDirection(k) ==
    << (IF k.forward THEN -1 ELSE 0) + (IF k.backward THEN 1 ELSE 0)
         + (IF k.left THEN -1 ELSE 0) + (IF k.right THEN 1 ELSE 0),
       (IF k.forward THEN -1 ELSE 0) + (IF k.backward THEN 1 ELSE 0)
         + (IF k.left THEN 1 ELSE 0) + (IF k.right THEN -1 ELSE 0) >>

\* a direction that is not normalised
Normalize_None(d) == << d[1] * ISO_DIAG, d[2] * ISO_DIAG >>

\* _direction.normalize(), components in 1/FScale
Normalize(d) ==
    LET len == ISqrt((d[1] * d[1] + d[2] * d[2]) * ISO_DIAG * ISO_DIAG)
    IN  << Div(d[1] * ISO_DIAG * FScale, len),
           Div(d[2] * ISO_DIAG * FScale, len) >>

\* a blend that pulls the velocity toward rest when no direction is given
Blend_TowardRest(v, k) ==
    LET raw == RawDirection(k)
        dir == IF raw[1] * raw[1] + raw[2] * raw[2] > 0
               THEN Normalize(raw) ELSE <<0, 0>>
        tx  == Div(dir[1] * MOVE_SPEED, FScale)
        tz  == Div(dir[2] * MOVE_SPEED, FScale)
    IN  << v[1] + Div((tx - v[1]) * LERP_NUM, LERP_DEN),
           v[2] + Div((tz - v[2]) * LERP_NUM, LERP_DEN) >>

\* velocity after the blend toward _direction * MOVE_SPEED
Blend(v, k) ==
    LET raw == RawDirection(k)
    IN  IF raw[1] * raw[1] + raw[2] * raw[2] > 0
        THEN LET dir == Normalize(raw)
                 tx  == Div(dir[1] * MOVE_SPEED, FScale)
                 tz  == Div(dir[2] * MOVE_SPEED, FScale)
             IN  << v[1] + Div((tx - v[1]) * LERP_NUM, LERP_DEN),
                    v[2] + Div((tz - v[2]) * LERP_NUM, LERP_DEN) >>
        ELSE v

Deadzone(c) == IF Abs(c) < VELOCITY_DEADZONE THEN 0 ELSE c

\* velocity after decay and deadzone
Decelerate(v, delta) ==
    << Deadzone(Div(v[1] * Decay(delta), FScale)),
       Deadzone(Div(v[2] * Decay(delta), FScale)) >>

\* charGroup.position += _velocity * delta
Integrate(p, v, delta) ==
    << p[1] + Div(v[1] * delta, (VScale * 1000) \div PScale),
       p[2] + Div(v[2] * delta, (VScale * 1000) \div PScale) >>

\* a clamp to the bound itself, without the player radius
resolveBounds_NoRadius(p, b) ==
    IF b.kind = "rect"
    THEN << Max(b.minX, Min(b.maxX, p[1])), Max(b.minZ, Min(b.maxZ, p[2])) >>
    ELSE p

\* a circular clamp onto the bound radius itself
resolveBounds_CircleToRadius(p, b) ==
    IF b.kind = "circle"
    THEN LET dx   == p[1] - b.centerX
             dz   == p[2] - b.centerZ
             dist == ISqrt(dx * dx + dz * dz)
         IN  IF dx * dx + dz * dz > b.radius * b.radius /\ dist > 0
             THEN << b.centerX + Div(dx * b.radius, dist),
                     b.centerZ + Div(dz * b.radius, dist) >>
             ELSE p
    ELSE p

\* a clamp that takes an absent bound for a rectangle
resolveBounds_NoNullCheck(p, b) ==
    << Max(b.minX + PLAYER_RADIUS, Min(b.maxX - PLAYER_RADIUS, p[1])),
       Max(b.minZ + PLAYER_RADIUS, Min(b.maxZ - PLAYER_RADIUS, p[2])) >>

resolveBounds(p, b) ==
    IF b.kind = "none" THEN p
    ELSE IF b.kind = "circle"
    THEN LET dx      == p[1] - b.centerX
             dz      == p[2] - b.centerZ
             dist    == ISqrt(dx * dx + dz * dz)
             maxDist == b.radius - PLAYER_RADIUS
         IN  IF (maxDist < 0 \/ dx * dx + dz * dz > maxDist * maxDist)
                /\ dist > 0
             THEN << b.centerX + Div(dx * maxDist, dist),
                     b.centerZ + Div(dz * maxDist, dist) >>
             ELSE p
    ELSE << Max(b.minX + PLAYER_RADIUS, Min(b.maxX - PLAYER_RADIUS, p[1])),
            Max(b.minZ + PLAYER_RADIUS, Min(b.maxZ - PLAYER_RADIUS, p[2])) >>

\* one iteration of the loop of resolveObstacles
PushOut(p, obs) ==
    LET dx      == p[1] - obs.x
        dz      == p[2] - obs.z
        dist    == ISqrt(dx * dx + dz * dz)
        minDist == obs.radius + PLAYER_RADIUS
    IN  IF dx * dx + dz * dz < minDist * minDist /\ dist > 0
        THEN << obs.x + Div(dx * minDist, dist),
                obs.z + Div(dz * minDist, dist) >>
        ELSE p

RECURSIVE ObstacleLoop(_, _, _)
ObstacleLoop(p, obstacles, i) ==
    IF i > Len(obstacles) THEN p
    ELSE ObstacleLoop(PushOut(p, obstacles[i]), obstacles, i + 1)

\* a loop that stops after the first obstacle
resolveObstacles_FirstOnly(p, obstacles) ==
    IF Len(obstacles) = 0 THEN p ELSE PushOut(p, obstacles[1])

resolveObstacles(p, obstacles) == ObstacleLoop(p, obstacles, 1)

\* squared planar distance from the character to a candidate; the code
\* compares Math.sqrt of it, which orders the same way
DistSq(p, c) == (c.x - p[1]) * (c.x - p[1]) + (c.z - p[2]) * (c.z - p[2])

\* a scan in which a later candidate at the same distance replaces the
\* earlier one
RECURSIVE ProximityLoop_LastWins(_, _, _, _)
ProximityLoop_LastWins(p, cands, i, best) ==
    IF i > Len(cands) THEN best[1]
    ELSE IF ~cands[i].tagged THEN ProximityLoop_LastWins(p, cands, i + 1, best)
    ELSE IF DistSq(p, cands[i]) <= best[2]
         THEN ProximityLoop_LastWins(p, cands, i + 1,
                                     <<i, DistSq(p, cands[i])>>)
         ELSE ProximityLoop_LastWins(p, cands, i + 1, best)

\* the scan of updateProximity: best = <<nearest, nearestDist squared>>
RECURSIVE ProximityLoop(_, _, _, _)
ProximityLoop(p, cands, i, best) ==
    IF i > Len(cands) THEN best[1]
    ELSE IF ~cands[i].tagged THEN ProximityLoop(p, cands, i + 1, best)
    ELSE IF DistSq(p, cands[i]) < best[2]
         THEN ProximityLoop(p, cands, i + 1, <<i, DistSq(p, cands[i])>>)
         ELSE ProximityLoop(p, cands, i + 1, best)

NearestCandidate(p, cands) ==
    ProximityLoop(p, cands, 1, <<0, PROXIMITY_RANGE * PROXIMITY_RANGE>>)

\* a change test that reports on every tick
Notification_EveryTick(old, new) == <<new>>

\* a change test that reports a new selection but not the loss of one
Notification_GainOnly(old, new) ==
    IF new # old /\ new # 0 THEN <<new>> ELSE <<>>

\* the tail of updateProximity: the callback runs iff the selection changed
Notification(old, new) == IF new # old THEN <<new>> ELSE <<>>

\* ui.js: controls.onProximityChange = (nearestObj) => showLabel / hideLabel
onProximityChange(nearestObj) == nearestObj

\* the position after integration and collision of an active update
MovedPosition(p, v, delta, e) ==
    resolveObstacles(resolveBounds(Integrate(p, v, delta), e.bounds),
                     e.obstacles)

\* a body that looks for the nearest object before the collision steps
updateBody_ProximityFirst(delta) ==
    LET v == Decelerate(Blend(vel, keys), delta)
        p == MovedPosition(pos, v, delta, env)
        n == NearestCandidate(Integrate(pos, v, delta), env.cands)
    IN  /\ vel' = v
        /\ pos' = p
        /\ posY' = 0
        /\ nearest' = n
        /\ notified' = Notification(nearest, n)
        /\ label' = IF notified' # <<>> THEN onProximityChange(notified'[1])
                    ELSE label

\* the body of update(delta) past its first line
updateBody(delta) ==
    LET v == Decelerate(Blend(vel, keys), delta)
        p == MovedPosition(pos, v, delta, env)
        n == NearestCandidate(p, env.cands)
    IN  /\ vel' = v
        /\ pos' = p
        /\ posY' = 0
        /\ nearest' = n
        /\ notified' = Notification(nearest, n)
        /\ label' = IF notified' # <<>> THEN onProximityChange(notified'[1])
                    ELSE label

\* an update that does not look at _active
update_NoActiveCheck(delta) == updateBody(delta)

\* controls.update(delta)
update(delta) ==
    IF ~active
    THEN /\ UNCHANGED <<vel, pos, posY, nearest, label>>
         /\ notified' = <<>>
    ELSE updateBody(delta)

\* controls.setActive(a): the new key and velocity state
setActive(a) ==
    /\ active' = a
    /\ IF ~a
       THEN /\ keys' = [forward |-> FALSE, backward |-> FALSE,
                        left |-> FALSE, right |-> FALSE]
            /\ vel' = <<0, 0>>
       ELSE UNCHANGED <<keys, vel>>

\* a setPosition that applies the bound to what it is given
setPosition_Clamped(x, z) ==
    /\ pos' = resolveBounds(<<x, z>>, env.bounds)
    /\ posY' = 0

\* controls.setPosition(x, z): charGroup.position.set(x, 0, z)
setPosition(x, z) ==
    /\ pos' = <<x, z>>
    /\ posY' = 0

\* controls.getPosition(): charGroup.position
getPosition == <<pos[1], posY, pos[2]>>

KeyNames == {"forward", "backward", "left", "right"}

\* the movement keys pressed in the whole-page exploration
PlazaKeys == {"forward", "backward"}

\* the movement keys pressed in the controller-level exploration
CtlKeys == {"forward", "backward", "right"}

\* a keydown listener that does not look at _active
onKeyDown_NoActiveCheck(k) == keys' = [keys EXCEPT ![k] = TRUE]

\* onKeyDown of controls.js for a movement key
onKeyDown(k) ==
    IF ~active THEN UNCHANGED keys
    ELSE keys' = [keys EXCEPT ![k] = TRUE]

\* onKeyUp of controls.js for a movement key
onKeyUp(k) == keys' = [keys EXCEPT ![k] = FALSE]

(***************************************************************************)
(* Environments explored                                                   *)
(***************************************************************************)
\* A plaza with the real bound and pillars whose content slots lie around
\* the spawn point: candidate 1 is just inside the proximity range of the
\* spawn (2.489), candidate 2 just outside it (2.546) on the opposite side.
CompactPlaza ==
    [bounds    |-> PlazaBounds,
     obstacles |-> Pillars,
     solids    |-> << >>,
     spawn     |-> <<0, 0>>,
     cands     |-> << Candidate(1760, 1760, TRUE, "/posts/a/"),
                      Candidate(-1800, -1800, TRUE, "/projects/b/") >>]

\* The cafe plaza as built: the about display at (-7, 0), out of reach of
\* the spawn within the frames explored.
CafePlaza ==
    [bounds    |-> PlazaBounds,
     obstacles |-> << >>,
     solids    |-> << >>,
     spawn     |-> <<0, 0>>,
     cands     |-> << Candidate(-7 * PScale, 0, TRUE, "/about/") >>]

\* The cyberpunk plaza with its spawn point 0.005 outside the clearance of
\* the first pillar and a content slot 2.49 away from it: a step toward
\* the pillar is pushed back onto the clearance, and the slot is within
\* range of the corrected position only.
PillarPlaza ==
    [bounds    |-> PlazaBounds,
     obstacles |-> Pillars,
     solids    |-> << >>,
     spawn     |-> <<-5195, -6000>>,
     cands     |-> << Candidate(-2705, -6016, TRUE, "/posts/a/") >>]

PlazaEnvs == {CompactPlaza, CafePlaza}

\* the environments of the frame-level exploration
LoopEnvs == {CompactPlaza, PillarPlaza}

\* Controller-level environments: createControls accepts any object list,
\* so these include an untagged object and two equidistant candidates.
OpenField ==
    [bounds    |-> NoBounds,
     obstacles |-> << >>,
     solids    |-> << >>,
     spawn     |-> <<0, 0>>,
     cands     |-> << Candidate(0, 1000, FALSE, ""),
                      Candidate(2000, 0, TRUE, "/posts/a/"),
                      Candidate(-2000, 0, TRUE, "/posts/b/") >>]

RoundField ==
    [bounds    |-> CircleBounds(0, 0, 3 * PScale),
     obstacles |-> << [x |-> 700, z |-> 0, radius |-> PScale \div 2] >>,
     solids    |-> << >>,
     spawn     |-> <<0, 0>>,
     cands     |-> << Candidate(2400, 0, TRUE, "/posts/a/"),
                      Candidate(0, -2600, TRUE, "/about/") >>]

CtlEnvs == {OpenField, RoundField}

\* Environments for the collision steps.  ObstacleField is a lone obstacle
\* at (5, 5) of radius 1 on open ground.
ObstacleField ==
    [bounds    |-> NoBounds,
     obstacles |-> << [x |-> 5 * PScale, z |-> 5 * PScale, radius |-> PScale] >>,
     solids    |-> << >>,
     spawn     |-> <<0, 0>>,
     cands     |-> << Candidate(5 * PScale, 3 * PScale, TRUE, "/posts/a/") >>]

\* The plaza bound with props of radius 0.5 that respect neither the wall
\* nor each other's clearance: one 0.5 from the east wall, and two whose
\* rims are 0.2 apart.
TightPlaza ==
    [bounds    |-> PlazaBounds,
     obstacles |-> << [x |-> 9500, z |-> 0, radius |-> PScale \div 2],
                      [x |-> 0, z |-> 0, radius |-> PScale \div 2],
                      [x |-> 1200, z |-> 0, radius |-> PScale \div 2] >>,
     solids    |-> << >>,
     spawn     |-> <<3 * PScale, 3 * PScale>>,
     cands     |-> << Candidate(3 * PScale, 5 * PScale, TRUE, "/posts/a/") >>]

\* The cloud island as built: a disc of radius 10 about the origin, no
\* obstacles.
CloudIsland ==
    [bounds    |-> CircleBounds(0, 0, 10 * PScale),
     obstacles |-> << >>,
     solids    |-> << >>,
     spawn     |-> <<0, 0>>,
     cands     |-> << Candidate(0, -7 * PScale, TRUE, "/about/") >>]

\* A disc of radius 3 whose centre is not the origin.
OffsetIsland ==
    [bounds    |-> CircleBounds(2 * PScale, -PScale, 3 * PScale),
     obstacles |-> << >>,
     solids    |-> << >>,
     spawn     |-> <<2 * PScale, -PScale>>,
     cands     |-> << Candidate(2 * PScale, PScale, TRUE, "/about/") >>]

CollideEnvs == {CafePlaza, CompactPlaza, ObstacleField, TightPlaza,
                CloudIsland, OffsetIsland}

\* positions a caller hands to controls.setPosition in each of them
CollidePositions(e) ==
    IF e = CafePlaza
    THEN {<<9690, 0>>, <<9900, -9900>>}                \* at / beyond the wall
    ELSE IF e = CompactPlaza
    THEN {<<-5500, -6000>>, <<9690, 9690>>, <<5430, 5430>>}
                                                      \* by a pillar, a corner
    ELSE IF e = ObstacleField
    THEN {<<5000, 5000>>, <<5600, 5800>>, <<6310, 5000>>}
                                                      \* centre, inside, rim
    ELSE IF e = CloudIsland
    THEN {<<-6850, -6850>>, <<12000, 5000>>}           \* by the rim, off the
                                                      \* island
    ELSE IF e = OffsetIsland
    THEN {<<3900, 900>>, <<2000, -1000>>, <<-3000, -1000>>}
                                                      \* by the rim, centre,
                                                      \* outside
    ELSE {<<9650, 0>>, <<650, 0>>, <<9700, -780>>}     \* in / by a clearance

\* wall-clock milliseconds between two frames (clock.getDelta())
Elapsed == {16, 400}

\* deltas handed to controls.update directly
CtlDeltas == {0, 50}

\* positions handed to controls.setPosition
SetPositions == {<<-600, 0>>, <<0, -2950>>}

(***************************************************************************)
(* model-loader.js and content-objects.js before they are called           *)
(***************************************************************************)
\* no loadModels call has been made
NotLoading == [phase |-> "idle", manifest |-> << >>, status |-> << >>,
               models |-> << >>]

\* no placeContentObjects call has been made
NotPlaced == [called |-> FALSE, data |-> << >>, theme |-> "", slots |-> << >>,
              objects |-> << >>, callbacks |-> 0]

(***************************************************************************)
(* model-loader.js                                                         *)
(***************************************************************************)
\* an entry of Object.entries(manifest)
Entry(n, u) == [name |-> n, url |-> u]

\* what loadModel(url) resolves to: gltf.scene of the file at url
Model(u) == [loaded |-> TRUE, scene |-> u]

Null == [loaded |-> FALSE, scene |-> ""]

\* the manifests handed to loadModels; two names may share a file
Manifests ==
    { << >>,
      << Entry("chair", "/models/chair.glb") >>,
      << Entry("chair", "/models/chair.glb"),
         Entry("table", "/models/table.glb") >>,
      << Entry("stool", "/models/chair.glb"),
         Entry("chair", "/models/chair.glb") >>,
      << Entry("chair", "/models/chair.glb"),
         Entry("table", "/models/table.glb"),
         Entry("lamp", "/models/lamp.glb") >>,
      << Entry("chair", "/models/chair.glb"),
         Entry("table", "/models/table.glb"),
         Entry("lamp", "/models/lamp.glb"),
         Entry("rug", "/models/rug.glb") >> }

\* a combinator that rejects with the first rejection (Promise.all)
allSettled_All(status) ==
    IF \E i \in 1..Len(status) : status[i] = "rejected" THEN "rejected"
    ELSE IF \E i \in 1..Len(status) : status[i] = "pending" THEN "pending"
    ELSE "fulfilled"

\* the state of Promise.allSettled(promises) for promises in the given
\* states: fulfilled once none is pending, never rejected
allSettled(status) ==
    IF \E i \in 1..Len(status) : status[i] = "pending" THEN "pending"
    ELSE "fulfilled"

\* the models object built by entries.forEach
BuildModels(manifest, status) ==
    [ n \in { manifest[i].name : i \in 1..Len(manifest) } |->
        LET i == CHOOSE j \in 1..Len(manifest) : manifest[j].name = n
        IN  IF status[i] = "fulfilled" THEN Model(manifest[i].url) ELSE Null ]

(***************************************************************************)
(* content-objects.js: placeContentObjects                                 *)
(***************************************************************************)
\* window.EXPLORE_DATA: absent, or posts, projects and an about URL
\* ("" when data.about is missing)
NoData == [given |-> FALSE, posts |-> << >>, projects |-> << >>, about |-> ""]

Data(ps, pj, ab) == [given |-> TRUE, posts |-> ps, projects |-> pj, about |-> ab]

\* contentSlots: absent, or blog and project positions and at most one
\* about position
NoSlots == [given |-> FALSE, blog |-> << >>, projects |-> << >>, about |-> << >>]

Slots(b, pj, ab) == [given |-> TRUE, blog |-> b, projects |-> pj, about |-> ab]

Prefixes(seq) == { SubSeq(seq, 1, n) : n \in 0..Len(seq) }

DataSets ==
    {NoData} \cup
    { Data(ps, pj, ab) :
        ps \in Prefixes(<<"/posts/a/", "/posts/b/", "/posts/c/">>),
        pj \in Prefixes(<<"/projects/a/", "/projects/b/">>),
        ab \in {"", "/me/"} }

SlotSets ==
    {NoSlots} \cup
    { Slots(b, pj, ab) :
        b  \in Prefixes(<< <<-3000, -5000>>, <<0, -5000>> >>),
        pj \in Prefixes(<< <<5000, -2000>>, <<5000, 1000>> >>),
        ab \in { << >>, << <<-7000, 0>> >> } }

Themes == {"beige", "dark", "light"}

\* the constructor a theme uses for a post and for a project
PostMesh(theme) ==
    IF theme = "beige" THEN "book"
    ELSE IF theme = "dark" THEN "neonBillboard" ELSE "floatingScroll"

ProjectMesh(theme) ==
    IF theme = "beige" THEN "displayItem"
    ELSE IF theme = "dark" THEN "arcadeCabinet" ELSE "crystalStructure"

Placed(k, m, it, p) == [kind |-> k, mesh |-> m, item |-> it, pos |-> p]

\* a loop bound that stops one short
SlotCount_OneShort(items, slotList) ==
    Max(0, Min(Len(items), Len(slotList)) - 1)

\* Math.min(posts.length, blogSlots.length), and the same for projects
SlotCount(items, slotList) == Min(Len(items), Len(slotList))

\* placeContentObjects(scene, data, theme, slots): objects and the number
\* of animation callbacks
placeContentObjects(data, theme, slots) ==
    IF ~data.given \/ ~slots.given
    THEN [objects |-> << >>, callbacks |-> 0]
    ELSE LET postCount == SlotCount(data.posts, slots.blog)
             projCount == SlotCount(data.projects, slots.projects)
             about     == IF data.about = "" THEN "/about/" ELSE data.about
             postObjs  == [ i \in 1..postCount |->
                              Placed("post", PostMesh(theme),
                                     data.posts[i], slots.blog[i]) ]
             projObjs  == [ i \in 1..projCount |->
                              Placed("project", ProjectMesh(theme),
                                     data.projects[i], slots.projects[i]) ]
             aboutObjs == IF slots.about # << >>
                          THEN << Placed("about", "aboutDisplay", about,
                                         slots.about[1]) >>
                          ELSE << >>
         IN  [objects   |-> postObjs \o projObjs \o aboutObjs,
              callbacks |-> IF theme \notin {"beige", "dark"}
                            THEN postCount + projCount ELSE 0]

(***************************************************************************)
(* The state after init() of main.js has returned                          *)
(***************************************************************************)
InitWith(e) ==
    /\ env = e
    /\ active = FALSE
    /\ keys = [forward |-> FALSE, backward |-> FALSE,
               left |-> FALSE, right |-> FALSE]
    /\ vel = <<0, 0>>
    /\ pos = e.spawn            \* controls.setPosition(spawnPosition.x, .z)
    /\ posY = 0
    /\ nearest = 0
    /\ capsule = <<e.spawn[1], 0, e.spawn[2]>>
    /\ panelOpen = FALSE
    /\ iframeSrc = ""
    /\ panelHidden = TRUE
    /\ backdropHidden = TRUE
    /\ panelVisible = FALSE
    /\ rafPending = 0
    /\ n100 = 0
    /\ n350 = 0
    /\ label = 0
    /\ gameStarted = FALSE
    /\ canvasIsActiveElement = FALSE
    /\ windowFocused = TRUE
    /\ hudHidden = TRUE
    /\ pauseShown = FALSE
    /\ cam = <<0, 0>>
    /\ ticks = 0
    /\ location = "explore"
    /\ loader = NotLoading
    /\ content = NotPlaced
    /\ lastOp = "init"
    /\ notified = <<>>
    /\ arg = <<>>

Init == \E e \in PlazaEnvs : InitWith(e)

InitCtl == \E e \in CtlEnvs : InitWith(e)

InitLoop == \E e \in LoopEnvs : InitWith(e)

InitCollide == \E e \in CollideEnvs : InitWith(e)

(***************************************************************************)
(* main.js: focus / blur handlers of the canvas                            *)
(***************************************************************************)
\* a focus listener that does not look at gameStarted
onCanvasFocus_NoStartCheck ==
    /\ setActive(TRUE)
    /\ hudHidden' = FALSE
    /\ pauseShown' = FALSE

\* renderer.domElement 'focus' listener
onCanvasFocus ==
    IF gameStarted
    THEN /\ setActive(TRUE)
         /\ hudHidden' = FALSE
         /\ pauseShown' = FALSE
    ELSE UNCHANGED <<active, keys, vel, hudHidden, pauseShown>>

\* renderer.domElement 'blur' listener
onCanvasBlur ==
    IF gameStarted
    THEN /\ setActive(FALSE)
         /\ IF ~panelOpen
            THEN hudHidden' = TRUE /\ pauseShown' = TRUE
            ELSE UNCHANGED <<hudHidden, pauseShown>>
    ELSE UNCHANGED <<active, keys, vel, hudHidden, pauseShown>>

\* Whether renderer.domElement.focus() dispatches a focus event: never when
\* the canvas already is the active element; always when the window has
\* focus; browser-dependent when it has not.
FocusDispatch ==
    IF canvasIsActiveElement THEN {FALSE}
    ELSE IF windowFocused THEN {TRUE}
    ELSE BOOLEAN

(***************************************************************************)
(* ui.js: the content panel                                                *)
(***************************************************************************)
\* an openContentPanel that leaves the controls active
openContentPanel_KeepActive(url) ==
    /\ iframeSrc' = url
    /\ UNCHANGED <<active, keys, vel>>
    /\ backdropHidden' = FALSE
    /\ panelHidden' = FALSE
    /\ rafPending' = rafPending + 1
    /\ panelOpen' = TRUE

\* openContentPanel(url); the DOM elements exist (explore.html)
openContentPanel(url) ==
    /\ iframeSrc' = url
    /\ setActive(FALSE)
    /\ backdropHidden' = FALSE
    /\ panelHidden' = FALSE
    /\ rafPending' = rafPending + 1
    /\ panelOpen' = TRUE

\* closeContentPanel(), without the calls its timers make later
closeContentPanel ==
    /\ panelVisible' = FALSE
    /\ n350' = n350 + 1
    /\ panelOpen' = FALSE
    /\ n100' = n100 + 1

(***************************************************************************)
(* Events                                                                  *)
(***************************************************************************)
\* click on #start-button (the start prompt is displayed until then)
StartClick ==
    /\ ~gameStarted
    /\ windowFocused
    /\ hudHidden' = FALSE
    /\ canvasIsActiveElement' = TRUE   \* focus(): its handler sees
                                       \* gameStarted = false and does nothing
    /\ setActive(TRUE)
    /\ gameStarted' = TRUE
    /\ lastOp' = "start"
    /\ UNCHANGED sideVars
    /\ UNCHANGED capsule
    /\ arg' = <<>>
    /\ notified' = <<>>
    /\ UNCHANGED <<pos, posY, nearest, env, uiVars, windowFocused, pauseShown,
                   cam, ticks>>

\* the user moves focus onto the canvas (click, Tab)
CanvasFocus ==
    /\ windowFocused
    /\ ~canvasIsActiveElement
    /\ canvasIsActiveElement' = TRUE
    /\ onCanvasFocus
    /\ lastOp' = "focus"
    /\ UNCHANGED sideVars
    /\ UNCHANGED capsule
    /\ arg' = <<>>
    /\ notified' = <<>>
    /\ UNCHANGED <<pos, posY, nearest, env, uiVars, gameStarted, windowFocused,
                   cam, ticks>>

\* the user moves focus off the canvas (click elsewhere, Tab)
CanvasBlur ==
    /\ windowFocused
    /\ canvasIsActiveElement
    /\ canvasIsActiveElement' = FALSE
    /\ onCanvasBlur
    /\ lastOp' = "blur"
    /\ UNCHANGED sideVars
    /\ UNCHANGED capsule
    /\ arg' = <<>>
    /\ notified' = <<>>
    /\ UNCHANGED <<pos, posY, nearest, env, uiVars, gameStarted, windowFocused,
                   cam, ticks>>

\* the window loses system focus: the active element receives blur
WindowBlur ==
    /\ windowFocused
    /\ windowFocused' = FALSE
    /\ IF canvasIsActiveElement THEN onCanvasBlur
       ELSE UNCHANGED <<active, keys, vel, hudHidden, pauseShown>>
    /\ lastOp' = "windowblur"
    /\ UNCHANGED sideVars
    /\ UNCHANGED capsule
    /\ arg' = <<>>
    /\ notified' = <<>>
    /\ UNCHANGED <<pos, posY, nearest, env, uiVars, gameStarted,
                   canvasIsActiveElement, cam, ticks>>

\* the window regains system focus: the active element receives focus
WindowFocus ==
    /\ ~windowFocused
    /\ windowFocused' = TRUE
    /\ IF canvasIsActiveElement THEN onCanvasFocus
       ELSE UNCHANGED <<active, keys, vel, hudHidden, pauseShown>>
    /\ lastOp' = "windowfocus"
    /\ UNCHANGED sideVars
    /\ UNCHANGED capsule
    /\ arg' = <<>>
    /\ notified' = <<>>
    /\ UNCHANGED <<pos, posY, nearest, env, uiVars, gameStarted,
                   canvasIsActiveElement, cam, ticks>>

\* click on #pause-resume: renderer.domElement.focus()
PauseResumeClick ==
    /\ windowFocused
    /\ pauseShown
    /\ canvasIsActiveElement' = TRUE
    /\ IF ~canvasIsActiveElement THEN onCanvasFocus
       ELSE UNCHANGED <<active, keys, vel, hudHidden, pauseShown>>
    /\ lastOp' = "resume"
    /\ UNCHANGED sideVars
    /\ UNCHANGED capsule
    /\ arg' = <<>>
    /\ notified' = <<>>
    /\ UNCHANGED <<pos, posY, nearest, env, uiVars, gameStarted, windowFocused,
                   cam, ticks>>

\* a KeyE / Enter listener without the controls.isActive test
KeyInteract_NoActiveCheck ==
    /\ windowFocused
    /\ rafPending < MaxTimers
    /\ IF ~panelOpen /\ nearest # 0
          /\ env.cands[nearest].url # ""
       THEN openContentPanel(env.cands[nearest].url)
       ELSE UNCHANGED <<active, keys, vel, iframeSrc, backdropHidden,
                        panelHidden, rafPending, panelOpen>>
    /\ lastOp' = "interact"
    /\ UNCHANGED sideVars
    /\ UNCHANGED capsule
    /\ arg' = <<>>
    /\ notified' = <<>>
    /\ UNCHANGED <<pos, posY, nearest, env, panelVisible, n100, n350, label,
                   mainVars, ticks>>

\* ui.js keydown listener for KeyE / Enter
KeyInteract ==
    /\ windowFocused
    /\ rafPending < MaxTimers
    /\ IF active /\ ~panelOpen /\ nearest # 0
          /\ env.cands[nearest].url # ""
       THEN openContentPanel(env.cands[nearest].url)
       ELSE UNCHANGED <<active, keys, vel, iframeSrc, backdropHidden,
                        panelHidden, rafPending, panelOpen>>
    /\ lastOp' = "interact"
    /\ UNCHANGED sideVars
    /\ UNCHANGED capsule
    /\ arg' = <<>>
    /\ notified' = <<>>
    /\ UNCHANGED <<pos, posY, nearest, env, panelVisible, n100, n350, label,
                   mainVars, ticks>>

\* the requestAnimationFrame callback of openContentPanel
PanelFrame ==
    /\ rafPending > 0
    /\ rafPending' = rafPending - 1
    /\ panelVisible' = TRUE
    /\ lastOp' = "panelframe"
    /\ UNCHANGED sideVars
    /\ UNCHANGED capsule
    /\ arg' = <<>>
    /\ notified' = <<>>
    /\ UNCHANGED <<ctlVars, env, panelOpen, iframeSrc, panelHidden,
                   backdropHidden, n100, n350, label, mainVars, ticks>>

\* click on #content-panel-close (inside the panel, so the panel is shown)
CloseClick ==
    /\ windowFocused
    /\ ~panelHidden
    /\ n350 < MaxTimers
    /\ closeContentPanel
    /\ lastOp' = "closeclick"
    /\ UNCHANGED sideVars
    /\ UNCHANGED capsule
    /\ arg' = <<>>
    /\ notified' = <<>>
    /\ UNCHANGED <<ctlVars, env, iframeSrc, panelHidden, backdropHidden,
                   rafPending, label, mainVars, ticks>>

\* click on #content-panel-backdrop
BackdropClick ==
    /\ windowFocused
    /\ ~backdropHidden
    /\ n350 < MaxTimers
    /\ closeContentPanel
    /\ lastOp' = "backdropclick"
    /\ UNCHANGED sideVars
    /\ UNCHANGED capsule
    /\ arg' = <<>>
    /\ notified' = <<>>
    /\ UNCHANGED <<ctlVars, env, iframeSrc, panelHidden, backdropHidden,
                   rafPending, label, mainVars, ticks>>

\* main.js keydown listener for Escape
KeyEscape ==
    /\ windowFocused
    /\ n350 < MaxTimers
    /\ IF panelOpen
       THEN /\ closeContentPanel
            /\ canvasIsActiveElement' = TRUE      \* renderer.domElement.focus()
            /\ IF ~canvasIsActiveElement THEN onCanvasFocus
               ELSE UNCHANGED <<active, keys, vel, hudHidden, pauseShown>>
       ELSE UNCHANGED <<panelVisible, n350, panelOpen, n100,
                        canvasIsActiveElement, active, keys, vel, hudHidden,
                        pauseShown>>
    /\ lastOp' = "escape"
    /\ UNCHANGED sideVars
    /\ UNCHANGED capsule
    /\ arg' = <<>>
    /\ notified' = <<>>
    /\ UNCHANGED <<pos, posY, nearest, env, iframeSrc, panelHidden,
                   backdropHidden, rafPending, label, gameStarted,
                   windowFocused, cam, ticks>>

\* a 100 ms timer that only refocuses the canvas
Timer100_FocusOnly ==
    /\ n100 > 0
    /\ n100' = n100 - 1
    /\ canvasIsActiveElement' = TRUE
    /\ \E dispatched \in FocusDispatch :
          IF dispatched THEN onCanvasFocus
          ELSE UNCHANGED <<active, keys, vel, hudHidden, pauseShown>>
    /\ lastOp' = "timer100"
    /\ UNCHANGED sideVars
    /\ UNCHANGED capsule
    /\ arg' = <<>>
    /\ notified' = <<>>
    /\ UNCHANGED <<pos, posY, nearest, env, panelOpen, iframeSrc, panelHidden,
                   backdropHidden, panelVisible, rafPending, n350, label,
                   gameStarted, windowFocused, cam, ticks>>

\* the 100 ms timer of closeContentPanel: focus(), setActive(true)
Timer100 ==
    /\ n100 > 0
    /\ n100' = n100 - 1
    /\ canvasIsActiveElement' = TRUE
    /\ \E dispatched \in FocusDispatch :
          IF dispatched /\ gameStarted
          THEN hudHidden' = FALSE /\ pauseShown' = FALSE
          ELSE UNCHANGED <<hudHidden, pauseShown>>
    /\ setActive(TRUE)
    /\ lastOp' = "timer100"
    /\ UNCHANGED sideVars
    /\ UNCHANGED capsule
    /\ arg' = <<>>
    /\ notified' = <<>>
    /\ UNCHANGED <<pos, posY, nearest, env, panelOpen, iframeSrc, panelHidden,
                   backdropHidden, panelVisible, rafPending, n350, label,
                   gameStarted, windowFocused, cam, ticks>>

\* the 350 ms timer of closeContentPanel; it fires after the 100 ms timer
\* of the same close
Timer350 ==
    /\ n350 > n100
    /\ n350' = n350 - 1
    /\ backdropHidden' = TRUE
    /\ panelHidden' = TRUE
    /\ iframeSrc' = ""
    /\ lastOp' = "timer350"
    /\ UNCHANGED sideVars
    /\ UNCHANGED capsule
    /\ arg' = <<>>
    /\ notified' = <<>>
    /\ UNCHANGED <<ctlVars, env, panelOpen, panelVisible, rafPending, n100,
                   label, mainVars, ticks>>

\* keydown of a movement key (controls.js onKeyDown)
KeyDown ==
    /\ windowFocused
    /\ \E k \in PlazaKeys : onKeyDown(k)
    /\ lastOp' = "keydown"
    /\ UNCHANGED sideVars
    /\ UNCHANGED capsule
    /\ arg' = <<>>
    /\ notified' = <<>>
    /\ UNCHANGED <<active, vel, pos, posY, nearest, env, uiVars, mainVars,
                   ticks>>

\* keyup of a movement key (controls.js onKeyUp)
KeyUp ==
    /\ windowFocused
    /\ \E k \in PlazaKeys : onKeyUp(k)
    /\ lastOp' = "keyup"
    /\ UNCHANGED sideVars
    /\ UNCHANGED capsule
    /\ arg' = <<>>
    /\ notified' = <<>>
    /\ UNCHANGED <<active, vel, pos, posY, nearest, env, uiVars, mainVars,
                   ticks>>

\* camera.position += (target - camera.position) * CAMERA_LERP, per axis
CameraFollow(c, p) ==
    << c[1] + Div((p[1] - c[1]) * CAMERA_LERP_NUM, CAMERA_LERP_DEN),
       c[2] + Div((p[2] - c[2]) * CAMERA_LERP_NUM, CAMERA_LERP_DEN) >>

\* a frame delta taken from the clock as it is
FrameDelta_Unclamped(elapsed) == elapsed

\* the clamped frame delta of animate()
FrameDelta(elapsed) == Min(elapsed, MAX_DELTA)

\* one frame of animate() in main.js
Animate ==
    /\ ticks < MaxFrames
    /\ \E elapsed \in Elapsed :
          /\ update(FrameDelta(elapsed))
          /\ arg' = <<FrameDelta(elapsed)>>
    /\ cam' = CameraFollow(cam, pos')
    /\ ticks' = ticks + 1
    /\ lastOp' = "animate"
    /\ UNCHANGED sideVars
    /\ UNCHANGED capsule
    /\ UNCHANGED <<active, keys, env, panelOpen, iframeSrc, panelHidden,
                   backdropHidden, panelVisible, rafPending, n100, n350,
                   gameStarted, canvasIsActiveElement, windowFocused,
                   hudHidden, pauseShown>>

Next ==
    \/ StartClick
    \/ CanvasFocus
    \/ CanvasBlur
    \/ WindowBlur
    \/ WindowFocus
    \/ PauseResumeClick
    \/ KeyInteract
    \/ PanelFrame
    \/ CloseClick
    \/ BackdropClick
    \/ KeyEscape
    \/ Timer100
    \/ Timer350
    \/ KeyDown
    \/ KeyUp
    \/ Animate

Spec == Init /\ [][Next]_vars

\* The page with its timers: a timer that setTimeout has queued fires.
SpecTimers == Init /\ [][Next]_vars /\ WF_vars(Timer100) /\ WF_vars(Timer350)

(***************************************************************************)
(* The page until the visitor leaves it                                    *)
(***************************************************************************)
\* click on #hud-exit (a button of the HUD): window.location.href = '/'
ExitClick ==
    /\ location = "explore"
    /\ windowFocused
    /\ ~hudHidden
    /\ location' = "/"
    /\ lastOp' = "exit"
    /\ arg' = <<>>
    /\ notified' = <<>>
    /\ UNCHANGED <<ctlVars, capsule, env, uiVars, mainVars, ticks, loader,
                   content>>

\* the listeners of the page run for as long as the page is loaded
NextExit ==
    \/ (location = "explore" /\ Next)
    \/ ExitClick

SpecExit == Init /\ [][NextExit]_vars

(***************************************************************************)
(* The animation loop with the events that steer the character: start,    *)
(* pause and resume by canvas focus, movement keys, frames                 *)
(***************************************************************************)
NextLoop ==
    \/ StartClick
    \/ CanvasBlur
    \/ CanvasFocus
    \/ KeyDown
    \/ KeyUp
    \/ Animate

SpecLoop == InitLoop /\ [][NextLoop]_vars

(***************************************************************************)
(* The controller on its own: the API returned by createControls, driven   *)
(* by an arbitrary caller                                                  *)
(***************************************************************************)
\* controls.setActive(a)
CtlSetActive ==
    /\ \E a \in BOOLEAN : setActive(a)
    /\ lastOp' = "setActive"
    /\ UNCHANGED sideVars
    /\ UNCHANGED capsule
    /\ arg' = <<>>
    /\ notified' = <<>>
    /\ UNCHANGED <<pos, posY, nearest, env, uiVars, mainVars, ticks>>

\* a caller sets the position
CtlSetPosition ==
    /\ \E p \in SetPositions :
          /\ setPosition(p[1], p[2])
          /\ arg' = p
    /\ lastOp' = "setPosition"
    /\ UNCHANGED sideVars
    /\ UNCHANGED capsule
    /\ notified' = <<>>
    /\ UNCHANGED <<active, keys, vel, nearest, env, uiVars, mainVars, ticks>>

\* keydown of any movement key
CtlKeyDown ==
    /\ \E k \in CtlKeys : onKeyDown(k)
    /\ lastOp' = "keydown"
    /\ UNCHANGED sideVars
    /\ UNCHANGED capsule
    /\ arg' = <<>>
    /\ notified' = <<>>
    /\ UNCHANGED <<active, vel, pos, posY, nearest, env, uiVars, mainVars,
                   ticks>>

\* keyup of any movement key
CtlKeyUp ==
    /\ \E k \in CtlKeys : onKeyUp(k)
    /\ lastOp' = "keyup"
    /\ UNCHANGED sideVars
    /\ UNCHANGED capsule
    /\ arg' = <<>>
    /\ notified' = <<>>
    /\ UNCHANGED <<active, vel, pos, posY, nearest, env, uiVars, mainVars,
                   ticks>>

\* controls.update(delta)
CtlUpdate ==
    /\ ticks < MaxTicks
    /\ \E delta \in CtlDeltas :
          /\ update(delta)
          /\ arg' = <<delta>>
    /\ ticks' = ticks + 1
    /\ lastOp' = "update"
    /\ UNCHANGED sideVars
    /\ UNCHANGED capsule
    /\ UNCHANGED <<active, keys, env, panelOpen, iframeSrc, panelHidden,
                   backdropHidden, panelVisible, rafPending, n100, n350,
                   mainVars>>

NextCtl ==
    \/ CtlSetActive
    \/ CtlSetPosition
    \/ CtlKeyDown
    \/ CtlKeyUp
    \/ CtlUpdate

SpecCtl == InitCtl /\ [][NextCtl]_vars

(***************************************************************************)
(* The controller on open ground over long runs of frames                  *)
(***************************************************************************)
\* the velocity after n update(0) calls with the keys k held throughout
RECURSIVE Held(_, _, _)
Held(v, k, n) ==
    IF n = 0 THEN v
    ELSE LET w == Decelerate(Blend(v, k), 0)
         IN  IF w = v /\ n > 1 THEN v      \* a fixed point: the rest is idle
             ELSE Held(w, k, n - 1)

\* lengths of the runs of update(0) calls taken in one step
RunUpTicks == {12, 40}

\* deltas of the single update calls
MotionDeltas == {16, 50}

\* the delta of a frame of the coasting tail: a 60 Hz frame
TailDelta == 16

AnyKeyHeld == \E k \in KeyNames : keys[k]

InitMotion == InitWith(OpenField)

\* controls.setActive(true)
MotionActivate ==
    /\ setActive(TRUE)
    /\ lastOp' = "setActive"
    /\ UNCHANGED sideVars
    /\ arg' = <<>>
    /\ UNCHANGED capsule
    /\ notified' = <<>>
    /\ UNCHANGED <<pos, posY, nearest, env, uiVars, mainVars, ticks>>

\* keydown of a movement key; keys are pressed before the coasting tail
MotionKeyDown ==
    /\ ticks < MaxMotionTicks
    /\ \E k \in CtlKeys : onKeyDown(k)
    /\ lastOp' = "keydown"
    /\ UNCHANGED sideVars
    /\ arg' = <<>>
    /\ UNCHANGED capsule
    /\ notified' = <<>>
    /\ UNCHANGED <<active, vel, pos, posY, nearest, env, uiVars, mainVars,
                   ticks>>

\* n consecutive controls.update(0) calls on the active controller, taken
\* as one step: a zero delta moves nothing, so only the velocity differs
\* from the effect of a single call
MotionRunUp ==
    /\ active
    /\ ticks = 0
    /\ \E n \in RunUpTicks :
          LET p  == MovedPosition(pos, Held(vel, keys, n), 0, env)
              nr == NearestCandidate(p, env.cands)
          IN  /\ vel' = Held(vel, keys, n)
              /\ pos' = p
              /\ posY' = 0
              /\ nearest' = nr
              /\ notified' = Notification(nearest, nr)
              /\ label' = IF notified' # <<>>
                          THEN onProximityChange(notified'[1]) ELSE label
    /\ arg' = <<0>>
    /\ ticks' = ticks + 1
    /\ lastOp' = "update"
    /\ UNCHANGED sideVars
    /\ UNCHANGED capsule
    /\ UNCHANGED <<active, keys, env, panelOpen, iframeSrc, panelHidden,
                   backdropHidden, panelVisible, rafPending, n100, n350,
                   mainVars>>

\* controls.update(delta).  The first MaxMotionTicks calls take any delta
\* with any keys; the StopTicks calls after them are the coasting tail:
\* no key held, frames of TailDelta.
MotionUpdate ==
    /\ \E delta \in (IF ticks < MaxMotionTicks THEN MotionDeltas
                      ELSE IF AnyKeyHeld \/ ticks >= MaxMotionTicks + StopTicks
                           THEN {} ELSE {TailDelta}) :
          /\ update(delta)
          /\ arg' = <<delta>>
    /\ ticks' = ticks + 1
    /\ lastOp' = "update"
    /\ UNCHANGED sideVars
    /\ UNCHANGED capsule
    /\ UNCHANGED <<active, keys, env, panelOpen, iframeSrc, panelHidden,
                   backdropHidden, panelVisible, rafPending, n100, n350,
                   mainVars>>

NextMotion ==
    \/ MotionActivate
    \/ MotionKeyDown
    \/ CtlKeyUp
    \/ MotionRunUp
    \/ MotionUpdate

SpecMotion == InitMotion /\ [][NextMotion]_vars

(***************************************************************************)
(* The controller on open ground with all four movement keys               *)
(***************************************************************************)
\* keydown of any of the four movement keys
IntentKeyDown ==
    /\ \E k \in KeyNames : onKeyDown(k)
    /\ lastOp' = "keydown"
    /\ UNCHANGED sideVars
    /\ UNCHANGED capsule
    /\ arg' = <<>>
    /\ notified' = <<>>
    /\ UNCHANGED <<active, vel, pos, posY, nearest, env, uiVars, mainVars,
                   ticks>>

\* keyup of any of the four movement keys
IntentKeyUp ==
    /\ \E k \in KeyNames : onKeyUp(k)
    /\ lastOp' = "keyup"
    /\ UNCHANGED sideVars
    /\ UNCHANGED capsule
    /\ arg' = <<>>
    /\ notified' = <<>>
    /\ UNCHANGED <<active, vel, pos, posY, nearest, env, uiVars, mainVars,
                   ticks>>

NextIntent ==
    \/ CtlSetActive
    \/ IntentKeyDown
    \/ IntentKeyUp
    \/ CtlUpdate

SpecIntent == InitMotion /\ [][NextIntent]_vars

(***************************************************************************)
(* The controller with capsule-against-octree collision (controls.js as    *)
(* first written for the isometric view)                                   *)
(***************************************************************************)
PLAYER_HEIGHT == PScale \div 2

\* PROXIMITY_RANGE of this version of controls.js
OCTREE_PROXIMITY_RANGE == 2 * PScale

\* A solid of the collision world: the half-space behind a plane.  The
\* unit normal (nx, ny, nz) is in 1/FScale and points out of the solid;
\* the signed distance of a point from the surface is normal . point + off.
Solid(nx, ny, nz, off) == [nx |-> nx, ny |-> ny, nz |-> nz, off |-> off]

SignedDist(s, x, y, z) == Div(s.nx * x + s.ny * y + s.nz * z, FScale) + s.off

\* how far the capsule c reaches into the solid s (positive: overlap)
Depth(s, c) ==
    PLAYER_RADIUS
      - Min(SignedDist(s, c[1], PLAYER_RADIUS + c[2], c[3]),
            SignedDist(s, c[1], PLAYER_HEIGHT + c[2], c[3]))

\* _octree.capsuleIntersect(_capsule): the solid of deepest overlap, the
\* first of them among equals, or 0 when the capsule overlaps none
RECURSIVE DeepestLoop(_, _, _, _)
DeepestLoop(c, solids, i, best) ==
    IF i > Len(solids) THEN best[1]
    ELSE IF Depth(solids[i], c) > best[2]
         THEN DeepestLoop(c, solids, i + 1, <<i, Depth(solids[i], c)>>)
         ELSE DeepestLoop(c, solids, i + 1, best)

capsuleIntersect(c, solids) == DeepestLoop(c, solids, 1, <<0, 0>>)

\* resolveCollisions(): _capsule.translate(normal * depth), once
resolveCollisions(c, solids) ==
    LET hit == capsuleIntersect(c, solids)
    IN  IF hit = 0 THEN c
        ELSE LET s == solids[hit]
                 d == Depth(s, c)
             IN  << c[1] + Div(s.nx * d, FScale),
                    c[2] + Div(s.ny * d, FScale),
                    c[3] + Div(s.nz * d, FScale) >>

\* syncCapsuleFromCharacter(): the capsule stands on the character's x, z
syncCapsuleFromCharacter(p) == <<p[1], 0, p[2]>>

\* a sync that carries the height of the capsule over to the character
syncCharacterFromCapsule_WithY(c) == <<c[1], c[2], c[3]>>

\* syncCharacterFromCapsule(): x and z are copied, y is left as it is (0)
syncCharacterFromCapsule(c) == <<c[1], 0, c[3]>>

\* the nearest object of this version of updateProximity
OctreeNearest(p, cands) ==
    ProximityLoop(p, cands, 1,
                  <<0, OCTREE_PROXIMITY_RANGE * OCTREE_PROXIMITY_RANGE>>)

\* controls.update(delta) of the octree controller
octreeUpdate(delta) ==
    IF ~active
    THEN /\ UNCHANGED <<vel, pos, posY, nearest, label, capsule>>
         /\ notified' = <<>>
    ELSE LET v  == Decelerate(Blend(vel, keys), delta)
             q  == Integrate(pos, v, delta)
             c  == IF env.solids # << >>
                   THEN resolveCollisions(syncCapsuleFromCharacter(q),
                                          env.solids)
                   ELSE capsule
             ch == IF env.solids # << >>
                   THEN syncCharacterFromCapsule(c)
                   ELSE <<q[1], 0, q[2]>>
             n  == OctreeNearest(<<ch[1], ch[3]>>, env.cands)
         IN  /\ vel' = v
             /\ pos' = <<ch[1], ch[3]>>
             /\ posY' = ch[2]
             /\ capsule' = c
             /\ nearest' = n
             /\ notified' = Notification(nearest, n)
             /\ label' = IF notified' # <<>>
                         THEN onProximityChange(notified'[1]) ELSE label

\* controls.setPosition(x, z) of the octree controller
octreeSetPosition(x, z) ==
    /\ pos' = <<x, z>>
    /\ posY' = 0
    /\ capsule' = syncCapsuleFromCharacter(<<x, z>>)

\* Two walls that meet at 45 degrees: the ground is free where z > -1 and
\* x + z < 1.
CornerWorld ==
    [bounds    |-> NoBounds,
     obstacles |-> << >>,
     solids    |-> << Solid(0, 0, FScale, PScale),
                      Solid(-ISO_DIAG, 0, -ISO_DIAG, 707) >>,
     spawn     |-> <<0, 0>>,
     cands     |-> << Candidate(PScale, -PScale, TRUE, "/posts/a/") >>]

\* A ramp that rises toward +x at 3 in 4 and meets the ground at x = 1.667.
RampWorld ==
    [bounds    |-> NoBounds,
     obstacles |-> << >>,
     solids    |-> << Solid(-6000, 8000, 0, PScale) >>,
     spawn     |-> <<0, 0>>,
     cands     |-> << Candidate(PScale, -PScale, TRUE, "/posts/a/") >>]

OctreeEnvs == {CornerWorld, RampWorld}

\* positions a caller hands to setPosition: by the corner, by the ramp
OctreePositions(e) ==
    IF e = CornerWorld THEN {<<1270, -700>>, <<500, -680>>}
    ELSE {<<1560, 0>>, <<1000, 1000>>}

InitOctree == \E e \in OctreeEnvs : InitWith(e)

OctreeSetPosition ==
    /\ \E p \in OctreePositions(env) :
          /\ octreeSetPosition(p[1], p[2])
          /\ arg' = p
    /\ lastOp' = "setPosition"
    /\ UNCHANGED sideVars
    /\ notified' = <<>>
    /\ UNCHANGED <<active, keys, vel, nearest, env, uiVars, mainVars, ticks>>

OctreeUpdate ==
    /\ ticks < MaxTicks
    /\ \E delta \in CtlDeltas :
          /\ octreeUpdate(delta)
          /\ arg' = <<delta>>
    /\ ticks' = ticks + 1
    /\ lastOp' = "update"
    /\ UNCHANGED sideVars
    /\ UNCHANGED <<active, keys, env, panelOpen, iframeSrc, panelHidden,
                   backdropHidden, panelVisible, rafPending, n100, n350,
                   mainVars>>

NextOctree ==
    \/ CtlSetActive
    \/ OctreeSetPosition
    \/ CtlKeyDown
    \/ CtlKeyUp
    \/ OctreeUpdate

SpecOctree == InitOctree /\ [][NextOctree]_vars

(***************************************************************************)
(* The controller in environments with collision geometry                  *)
(***************************************************************************)
\* a caller sets the position (spawn, teleport)
CollideSetPosition ==
    /\ \E p \in CollidePositions(env) :
          /\ setPosition(p[1], p[2])
          /\ arg' = p
    /\ lastOp' = "setPosition"
    /\ UNCHANGED sideVars
    /\ UNCHANGED capsule
    /\ notified' = <<>>
    /\ UNCHANGED <<active, keys, vel, nearest, env, uiVars, mainVars, ticks>>

NextCollide ==
    \/ CtlSetActive
    \/ CollideSetPosition
    \/ KeyDown
    \/ KeyUp
    \/ CtlUpdate

SpecCollide == InitCollide /\ [][NextCollide]_vars

(***************************************************************************)
(* model-loader.js: one call of loadModels and the loads it starts         *)
(***************************************************************************)
\* loadModels(manifest) up to its await: one loadModel per entry
LoadModels ==
    /\ loader.phase = "idle"
    /\ \E m \in Manifests :
          loader' = [phase |-> "awaiting", manifest |-> m,
                     status |-> [i \in 1..Len(m) |-> "pending"],
                     models |-> << >>]
    /\ lastOp' = "loadModels"
    /\ arg' = <<>>
    /\ notified' = <<>>
    /\ UNCHANGED <<ctlVars, capsule, env, uiVars, mainVars, ticks, location,
                   content>>

\* the GLTFLoader calls back for one model: onLoad resolves the promise of
\* loadModel, onError rejects it
LoadSettle ==
    /\ loader.phase = "awaiting"
    /\ \E i \in 1..Len(loader.status) :
          /\ loader.status[i] = "pending"
          /\ \E outcome \in {"fulfilled", "rejected"} :
                loader' = [loader EXCEPT !.status[i] = outcome]
    /\ lastOp' = "loadSettle"
    /\ arg' = <<>>
    /\ notified' = <<>>
    /\ UNCHANGED <<ctlVars, capsule, env, uiVars, mainVars, ticks, location,
                   content>>

\* loadModels past its await: the awaited promise has settled
LoadModelsResume ==
    /\ loader.phase = "awaiting"
    /\ allSettled(loader.status) # "pending"
    /\ loader' = IF allSettled(loader.status) = "fulfilled"
                 THEN [loader EXCEPT
                         !.phase = "resolved",
                         !.models = BuildModels(loader.manifest, loader.status)]
                 ELSE [loader EXCEPT !.phase = "rejected"]
    /\ lastOp' = "loadModelsResume"
    /\ arg' = <<>>
    /\ notified' = <<>>
    /\ UNCHANGED <<ctlVars, capsule, env, uiVars, mainVars, ticks, location,
                   content>>

InitLoad == InitWith(CafePlaza)

NextLoad ==
    \/ LoadModels
    \/ LoadSettle
    \/ LoadModelsResume

SpecLoad == InitLoad /\ [][NextLoad]_vars

(***************************************************************************)
(* content-objects.js: one call of placeContentObjects                     *)
(***************************************************************************)
PlaceContent ==
    /\ ~content.called
    /\ \E d \in DataSets, t \in Themes, sl \in SlotSets :
          content' = [called    |-> TRUE,
                      data      |-> d,
                      theme     |-> t,
                      slots     |-> sl,
                      objects   |-> placeContentObjects(d, t, sl).objects,
                      callbacks |-> placeContentObjects(d, t, sl).callbacks]
    /\ lastOp' = "placeContentObjects"
    /\ arg' = <<>>
    /\ notified' = <<>>
    /\ UNCHANGED <<ctlVars, capsule, env, uiVars, mainVars, ticks, location,
                   loader>>

InitPlace == InitWith(CafePlaza)

NextPlace == PlaceContent

SpecPlace == InitPlace /\ [][NextPlace]_vars

(***************************************************************************)
(* Properties                                                              *)
(***************************************************************************)
\* the canvas has focus: it is the active element of a focused window
CanvasHasFocus == canvasIsActiveElement /\ windowFocused

\* C1: in every reachable state of the page, an open panel implies
\* inactive controls (no movement while a panel is open).
C1_PanelOpenImpliesInactive == panelOpen => ~active

\* C2: a KeyE / Enter press leaves panelOpen, active and the iframe URL
\* unchanged unless the controls are active, a nearest object exists and no
\* panel is open at the moment of the press.
C2_InteractGated ==
    [][ (lastOp' = "interact" /\ ~(active /\ nearest # 0 /\ ~panelOpen))
          => UNCHANGED <<panelOpen, active, iframeSrc>> ]_vars

\* an interact press arrived while a target was selected but the controls
\* were inactive, and no panel opened
C2_Witness == lastOp = "interact" /\ nearest # 0 /\ ~active /\ ~panelOpen

\* C3: an interact press while active and with no panel open opens the
\* panel and deactivates the controls in the same step when a proximity
\* target exists, and leaves the state Active when none exists.
C3_InteractOpensPanel ==
    [][ (lastOp' = "interact" /\ active /\ ~panelOpen)
          => IF nearest # 0 THEN panelOpen' /\ ~active'
                            ELSE active' /\ ~panelOpen' ]_vars

\* an interact press has just opened the panel on the selected candidate
C3_Witness ==
    /\ lastOp = "interact"
    /\ panelOpen
    /\ ~active
    /\ nearest # 0
    /\ iframeSrc = env.cands[nearest].url

\* an explicit close has run and its settle timer is pending
ClosePending ==
    /\ lastOp \in {"closeclick", "backdropclick", "escape"}
    /\ ~panelOpen
    /\ n100 > 0

\* C4: after an explicit close (close button, backdrop, Escape) the
\* controls eventually are active again with no panel open, unless a new
\* panel is opened first.
C4_CloseLeadsToActive == ClosePending ~> ((active /\ ~panelOpen) \/ panelOpen)

\* the settle timer of a close has just reactivated the controls
C4_Witness == lastOp = "timer100" /\ active /\ ~panelOpen /\ gameStarted

\* C5: an explicit close of an open panel (close button, backdrop click,
\* Escape with its canvas focus call) leaves the controls inactive; they
\* become active only when the 100 ms timer fires.
C5_CloseKeepsInactive ==
    [][ (lastOp' \in {"closeclick", "backdropclick", "escape"} /\ panelOpen)
          => ~active' ]_vars

\* C6: once the game has started, a canvas blur deactivates the controls
\* and they stay inactive for as long as the canvas lacks focus.
C6_InactiveWhileBlurred ==
    [][ /\ (lastOp' \in {"blur", "windowblur"} /\ gameStarted
              /\ ~CanvasHasFocus') => ~active'
        /\ (gameStarted /\ ~CanvasHasFocus /\ ~active /\ ~CanvasHasFocus')
              => ~active' ]_vars

\* C7: before the start button has been clicked the controls are inactive.
C7_InactiveBeforeStart == ~gameStarted => ~active

\* the canvas received focus before the start button was clicked
C7_Witness == ~gameStarted /\ lastOp = "focus" /\ canvasIsActiveElement

C9_NotifyOncePerChange ==
    [][ notified' = IF nearest' # nearest THEN <<nearest'>> ELSE <<>> ]_vars

\* a tick has just reported the loss of the selected candidate
C9_Witness == lastOp = "update" /\ notified = <<0>> /\ label = 0

\* candidate i carries the interactive tag and is within the proximity
\* radius of p
InRange(p, cands, i) ==
    cands[i].tagged /\ DistSq(p, cands[i]) < PROXIMITY_RANGE * PROXIMITY_RANGE

\* n is the first of the nearest tagged candidates in range of p, or 0
\* when no tagged candidate is in range
IsNearestSelection(n, p, cands) ==
    IF \A i \in 1..Len(cands) : ~InRange(p, cands, i)
    THEN n = 0
    ELSE /\ n \in 1..Len(cands)
         /\ InRange(p, cands, n)
         /\ \A j \in 1..Len(cands) :
               InRange(p, cands, j)
                 => \/ DistSq(p, cands[j]) > DistSq(p, cands[n])
                    \/ (DistSq(p, cands[j]) = DistSq(p, cands[n]) /\ j >= n)

\* C10: after each active tick nearestObject is the tagged candidate of
\* minimal planar distance within the proximity radius, the earlier one
\* in the list among equidistant ones, or null when none is in range.
C10_NearestSelected ==
    [][ (ticks' # ticks /\ active)
          => IsNearestSelection(nearest', pos', env.cands) ]_vars

\* an active tick has selected one of two equidistant candidates
C10_Witness ==
    /\ lastOp = "update"
    /\ active
    /\ nearest # 0
    /\ \E j \in 1..Len(env.cands) :
          /\ j # nearest
          /\ env.cands[j].tagged
          /\ DistSq(pos, env.cands[j]) = DistSq(pos, env.cands[nearest])

\* C27: in every reachable state of the controller, inactive controls
\* have all four key flags false and the velocity (0, 0).
C27_InactiveMeansIdle ==
    ~active => (\A k \in KeyNames : ~keys[k]) /\ vel = <<0, 0>>

\* a keydown has arrived at a controller that was deactivated after it had
\* moved, and was ignored
C27_Witness ==
    /\ lastOp = "keydown"
    /\ ~active
    /\ env = OpenField
    /\ pos \notin (SetPositions \cup {env.spawn})
    /\ \A k \in KeyNames : ~keys[k]

\* C28: proximity is evaluated on every tick, active or not: after any
\* tick nearestObject is the nearest tagged candidate in range of the
\* agent's position.
C28_ProximityEveryTick ==
    [][ ticks' # ticks
          => IsNearestSelection(nearest', pos', env.cands) ]_vars

\* C25: an Escape press while no content panel is open leaves the
\* experience for the main site.
C25_EscapeExits ==
    [][ (lastOp' = "escape" /\ ~panelOpen) => location' = "/" ]_vars

\* C26: whenever panelOpen is true and the open animation frame has run,
\* the panel and its backdrop are displayed and the iframe holds a URL.
C26_OpenPanelDisplayed ==
    (panelOpen /\ rafPending = 0)
       => (~panelHidden /\ ~backdropHidden /\ panelVisible /\ iframeSrc # "")

\* C30: nearestObject always is the argument of the most recent proximity
\* notification (the candidate the label shows, none before any
\* notification), and an E / Enter press that opens the panel opens the
\* URL of the candidate the label shows.
C30_LabelMatchesNearest ==
    [][ /\ nearest = label
        /\ nearest' = label'
        /\ (~panelOpen /\ panelOpen')
              => (label # 0 /\ iframeSrc' = env.cands[label].url) ]_vars

\* the agent has walked into the range of the second candidate, the label
\* shows it, and an E / Enter press has opened its URL
C30_Witness ==
    /\ lastOp = "interact"
    /\ panelOpen
    /\ pos # env.spawn
    /\ label = 2
    /\ nearest = 2
    /\ iframeSrc = env.cands[2].url

(***************************************************************************)
(* Collision properties                                                    *)
(***************************************************************************)
\* a step that made an active controls.update call
ActiveTick == ticks' # ticks /\ active

\* p lies in the rectangular bound b inset by the player radius
WithinRect(p, b) ==
    /\ b.minX + PLAYER_RADIUS <= p[1] /\ p[1] <= b.maxX - PLAYER_RADIUS
    /\ b.minZ + PLAYER_RADIUS <= p[2] /\ p[2] <= b.maxZ - PLAYER_RADIUS

\* p is no nearer to the centre of obstacle o than its radius plus the
\* player radius; 2 position units (0.002) absorb the rounding of the two
\* coordinates of a push-out
Clear(p, o) ==
    DistSq(p, o) >= (o.radius + PLAYER_RADIUS - 2) * (o.radius + PLAYER_RADIUS - 2)

ClearOfAll(p, obstacles) ==
    \A i \in 1..Len(obstacles) : Clear(p, obstacles[i])

\* the obstacle discs do not overlap pairwise
NonOverlapping(obstacles) ==
    \A i, j \in 1..Len(obstacles) :
        i < j => DistSq(<<obstacles[i].x, obstacles[i].z>>, obstacles[j])
                   >= (obstacles[i].radius + obstacles[j].radius)
                        * (obstacles[i].radius + obstacles[j].radius)

\* every obstacle keeps its clearance (radius plus player radius) inside
\* the inset bound, and no two clearances overlap
WellSeparated(e) ==
    /\ \A i \in 1..Len(e.obstacles) :
          LET o == e.obstacles[i]
              c == o.radius + PLAYER_RADIUS
          IN  /\ WithinRect(<<o.x - c, o.z - c>>, e.bounds)
              /\ WithinRect(<<o.x + c, o.z + c>>, e.bounds)
    /\ \A i, j \in 1..Len(e.obstacles) :
          i < j => DistSq(<<e.obstacles[i].x, e.obstacles[i].z>>, e.obstacles[j])
                     >= (e.obstacles[i].radius + e.obstacles[j].radius
                           + 2 * PLAYER_RADIUS)
                        * (e.obstacles[i].radius + e.obstacles[j].radius
                           + 2 * PLAYER_RADIUS)

\* C12: with a rectangular bound and no obstacles, after every active tick
\* x lies in [minX + 0.3, maxX - 0.3] and z in [minZ + 0.3, maxZ - 0.3],
\* whatever the keys, the delta and the position before the tick.
C12_StaysInsideRect ==
    [][ (ActiveTick /\ env.bounds.kind = "rect" /\ env.obstacles = << >>)
          => WithinRect(pos', env.bounds) ]_vars

\* an active tick drove the agent against the east wall and left it on
\* the limit x = maxX - 0.3
C12_Witness ==
    /\ lastOp = "update"
    /\ active
    /\ env = CafePlaza
    /\ vel[1] > 0
    /\ pos[1] = env.bounds.maxX - PLAYER_RADIUS

\* C13: with a single circular obstacle of radius r, after every active
\* tick the agent is at least r + 0.3 from the obstacle centre, whatever
\* position it had before the tick.
C13_ClearOfObstacle ==
    [][ (ActiveTick /\ env.bounds.kind = "none" /\ Len(env.obstacles) = 1)
          => Clear(pos', env.obstacles[1]) ]_vars

\* C14 as stated: with a rectangular bound and pairwise non-overlapping
\* obstacles, after every active tick the agent is inside the inset bound
\* and clear of every obstacle, wherever the obstacles lie.
C14_InsideAndClear ==
    [][ (ActiveTick /\ env.bounds.kind = "rect" /\ Len(env.obstacles) > 0
           /\ NonOverlapping(env.obstacles))
          => (WithinRect(pos', env.bounds)
                /\ ClearOfAll(pos', env.obstacles)) ]_vars

\* C14 amended: when moreover every obstacle keeps its clearance inside
\* the inset bound and the clearances do not overlap, an active tick that
\* starts inside the inset bound and clear of every obstacle ends so.
C14_SeparatedInsideAndClear ==
    [][ (ActiveTick /\ env.bounds.kind = "rect" /\ Len(env.obstacles) > 0
           /\ WellSeparated(env)
           /\ WithinRect(pos, env.bounds) /\ ClearOfAll(pos, env.obstacles))
          => (WithinRect(pos', env.bounds)
                /\ ClearOfAll(pos', env.obstacles)) ]_vars

\* an active tick carried the agent into the clearance of the fourth
\* pillar and the push-out left it on the rim of that clearance
C14_Witness ==
    /\ lastOp = "update"
    /\ active
    /\ env = CompactPlaza
    /\ vel[1] > 0
    /\ pos \notin CollidePositions(env)
    /\ DistSq(pos, env.obstacles[4])
          <= (env.obstacles[4].radius + PLAYER_RADIUS + 2)
               * (env.obstacles[4].radius + PLAYER_RADIUS + 2)

\* C17: setPosition(x, z) followed by zero ticks reads back exactly
\* (x, 0, z) from getPosition(), whatever bounds and obstacles are
\* configured: the call stores its arguments and only a tick or another
\* setPosition moves the agent.
C17_SetPositionRoundTrip ==
    [][ /\ lastOp' = "setPosition" => getPosition' = <<arg'[1], 0, arg'[2]>>
        /\ lastOp' \notin {"setPosition", "update", "animate"}
              => getPosition' = getPosition ]_vars

\* a position outside the inset bound has been set and reads back as given
C17_Witness ==
    /\ lastOp = "setPosition"
    /\ env.bounds.kind = "rect"
    /\ ~WithinRect(arg, env.bounds)
    /\ getPosition = <<arg[1], 0, arg[2]>>

\* p lies in the circular bound b inset by the player radius; 2 position
\* units absorb the rounding of the two coordinates of a rescale
WithinCircle(p, b) ==
    (p[1] - b.centerX) * (p[1] - b.centerX)
      + (p[2] - b.centerZ) * (p[2] - b.centerZ)
        <= (b.radius - PLAYER_RADIUS + 2) * (b.radius - PLAYER_RADIUS + 2)

\* C29: with a circular bound of centre c and radius R and no obstacles,
\* after every active tick the agent is at most R - 0.3 from c, whatever
\* the keys, the deltas and the position before the tick.
C29_StaysInsideCircle ==
    [][ (ActiveTick /\ env.bounds.kind = "circle" /\ env.obstacles = << >>)
          => WithinCircle(pos', env.bounds) ]_vars

\* an active tick drove the agent over the limiting radius of the cloud
\* island and the rescale left it on that radius
C29_Witness ==
    /\ lastOp = "update"
    /\ active
    /\ env = CloudIsland
    /\ vel[1] < 0
    /\ pos \notin CollidePositions(env)
    /\ ~WithinCircle(<<pos[1] - 3, pos[2] - 3>>, env.bounds)

(***************************************************************************)
(* Velocity properties                                                     *)
(***************************************************************************)
\* the squared speed in units of 0.001 per second (the components are cut
\* to that unit so that the squares stay within 32 bits)
SpeedSq(v) == Div(v[1], 10) * Div(v[1], 10) + Div(v[2], 10) * Div(v[2], 10)

\* C15: on open ground, starting from rest, the speed sqrt(vx^2 + vz^2)
\* never exceeds MOVE_SPEED, whatever keys are held and whatever the
\* deltas.
C15_SpeedBounded == SpeedSq(vel) <= (MOVE_SPEED \div 10) * (MOVE_SPEED \div 10)

\* two keys have been held over a long run of frames and the agent moves
\* along the world z axis at more than 99% of MOVE_SPEED
C15_Witness ==
    /\ keys.forward /\ keys.right
    /\ vel[1] = 0
    /\ 100 * Abs(vel[2]) >= 99 * MOVE_SPEED

\* C16: with no direction key held, each active tick leaves no velocity
\* component larger in magnitude than before, makes each non-zero
\* component strictly smaller when time has passed, and leaves none
\* between zero and the deadzone; and after StopTicks keyless frames the
\* velocity is exactly (0, 0).
C16_DecaysToZero ==
    [][ /\ (lastOp' = "update" /\ active /\ ~AnyKeyHeld)
             => \A i \in 1..2 :
                  /\ Abs(vel'[i]) <= Abs(vel[i])
                  /\ (arg'[1] > 0 /\ vel[i] # 0) => Abs(vel'[i]) < Abs(vel[i])
                  /\ vel'[i] = 0 \/ Abs(vel'[i]) >= VELOCITY_DEADZONE
        /\ ticks' >= MaxMotionTicks + StopTicks => vel' = <<0, 0>> ]_vars

\* the agent has coasted over the whole tail and stands still away from
\* where it started
C16_Witness ==
    /\ lastOp = "update"
    /\ active
    /\ ~AnyKeyHeld
    /\ ticks = MaxMotionTicks + StopTicks
    /\ vel = <<0, 0>>
    /\ pos # env.spawn

\* C21: with no bounds, no obstacles and no collision world the collision
\* step changes nothing: after every active tick the position is the
\* position before the tick plus the tick's velocity times delta.
C21_FreeMovement ==
    [][ (ActiveTick /\ env.bounds.kind = "none" /\ env.obstacles = << >>
           /\ env.solids = << >>)
          => pos' = << pos[1] + Div(vel'[1] * arg'[1], 10000),
                       pos[2] + Div(vel'[2] * arg'[1], 10000) >> ]_vars

\* an active tick has carried the agent more than half a unit from the
\* origin of unbounded ground
C21_Witness ==
    /\ lastOp = "update"
    /\ active
    /\ env.bounds.kind = "none"
    /\ env.obstacles = << >>
    /\ arg[1] > 0
    /\ vel # <<0, 0>>
    /\ Abs(pos[1]) > PScale \div 2

\* the intent direction is zero-length: no key is held or opposing keys
\* cancel
ZeroIntent == RawDirection(keys) = <<0, 0>>

\* C22: an active tick with a zero-length intent direction applies only
\* the decay exp(-6 * delta) and the deadzone to each velocity component.
C22_PureDeceleration ==
    [][ (ActiveTick /\ ZeroIntent)
          => \A i \in 1..2 :
                LET d == Div(vel[i] * Decay(arg'[1]), FScale)
                IN  vel'[i] = IF Abs(d) < VELOCITY_DEADZONE THEN 0 ELSE d ]_vars

\* a tick has run with left and right held together on a moving agent
C22_Witness ==
    /\ lastOp = "update"
    /\ active
    /\ keys.left /\ keys.right /\ ~keys.forward /\ ~keys.backward
    /\ arg = <<50>>
    /\ vel # <<0, 0>>
    /\ pos # env.spawn

(***************************************************************************)
(* Properties of a frame                                                   *)
(***************************************************************************)
\* C11: in every frame with active controls the steps run in the order
\* integration, bounds, obstacles, proximity, camera: the position of the
\* frame is the integrated position (old position plus new velocity times
\* delta; 1/10000 u/s times ms is 1/10000 of a position unit) corrected by
\* the bounds and then by the obstacles, the nearest
\* object is selected at that corrected position, and the camera moves
\* toward that corrected position.
C11_StepOrder ==
    [][ ActiveTick =>
          LET q == << pos[1] + Div(vel'[1] * arg'[1], 10000),
                      pos[2] + Div(vel'[2] * arg'[1], 10000) >>
              c == resolveObstacles(resolveBounds(q, env.bounds),
                                    env.obstacles)
          IN  /\ pos' = c
              /\ IsNearestSelection(nearest', c, env.cands)
              /\ cam'[1] - cam[1] = Div((c[1] - cam[1]) * 8, 100)
              /\ cam'[2] - cam[2] = Div((c[2] - cam[2]) * 8, 100) ]_vars

\* a frame has pushed the agent back onto the clearance of the first
\* pillar and selected the slot that is in range from there
C11_Witness ==
    /\ lastOp = "animate"
    /\ active
    /\ env = PillarPlaza
    /\ arg = <<MAX_DELTA>>
    /\ pos # env.spawn
    /\ vel[1] < 0
    /\ ticks = 1
    /\ DistSq(pos, env.obstacles[1])
          <= (env.obstacles[1].radius + PLAYER_RADIUS + 2)
               * (env.obstacles[1].radius + PLAYER_RADIUS + 2)
    /\ nearest = 1
    /\ cam # <<0, 0>>

\* C20: the delta handed to controls.update in a frame is at most 50 ms
\* whatever time the clock reports, and no frame moves the agent by more
\* than MOVE_SPEED * 0.05 = 0.25 along either axis.
C20_DeltaClamped ==
    [][ lastOp' = "animate"
          => /\ arg'[1] <= 50
             /\ Abs(pos'[1] - pos[1]) <= PScale \div 4
             /\ Abs(pos'[2] - pos[2]) <= PScale \div 4 ]_vars

\* a stalled frame (400 ms on the clock) has moved the agent with the
\* clamped delta
C20_Witness ==
    /\ lastOp = "animate"
    /\ active
    /\ arg = <<50>>
    /\ vel # <<0, 0>>
    /\ pos # env.spawn

(***************************************************************************)
(* Properties of the octree controller                                     *)
(***************************************************************************)
\* C18: the agent is on the ground plane in every reachable state: its
\* height y is 0 after setPosition and after every tick, also after a
\* push-out that lifts the capsule.
C18_OnGroundPlane == posY = 0

\* a tick has pushed the capsule up the ramp and the character is on the
\* ground below it
C18_Witness ==
    /\ lastOp = "update"
    /\ active
    /\ env = RampWorld
    /\ capsule[2] > 0
    /\ pos = <<capsule[1], capsule[3]>>
    /\ posY = 0

\* C19: after the push-out of an active tick the capsule overlaps no
\* solid of the collision world (2 position units absorb the rounding of
\* the translation).
C19_NoInterpenetration ==
    [][ ActiveTick
          => \A i \in 1..Len(env.solids) :
                Depth(env.solids[i], capsule') <= 2 ]_vars

(***************************************************************************)
(* Properties of the model loader and of content placement                 *)
(***************************************************************************)
\* C23: loadModels never rejects, and what it resolves to has exactly one
\* entry per manifest name: the loaded model where that load succeeded,
\* null where it failed.
C23_LoadModelsNeverRejects ==
    /\ loader.phase # "rejected"
    /\ loader.phase = "resolved"
         => /\ DOMAIN loader.models
                 = { loader.manifest[i].name : i \in 1..Len(loader.manifest) }
            /\ \A i \in 1..Len(loader.manifest) :
                  /\ loader.status[i] # "pending"
                  /\ loader.models[loader.manifest[i].name]
                       = IF loader.status[i] = "fulfilled"
                         THEN Model(loader.manifest[i].url) ELSE Null

\* loadModels has resolved after one load failed and another succeeded
C23_Witness ==
    /\ loader.phase = "resolved"
    /\ \E i, j \in 1..Len(loader.manifest) :
          /\ loader.status[i] = "rejected"
          /\ loader.status[j] = "fulfilled"
          /\ loader.models[loader.manifest[i].name] = Null
          /\ loader.models[loader.manifest[j].name].loaded

\* the objects of one kind among those placed, in order
OfKind(objects, k) == SelectSeq(objects, LAMBDA o : o.kind = k)

\* the placed objects of kind k are the first items, in order, as many as
\* there are items and slots
FirstPlaced(objects, k, items, slotList) ==
    /\ Len(OfKind(objects, k)) = Min(Len(items), Len(slotList))
    /\ \A i \in 1..Len(OfKind(objects, k)) :
          /\ OfKind(objects, k)[i].item = items[i]
          /\ OfKind(objects, k)[i].pos = slotList[i]

SlotLimitsRespected ==
    /\ FirstPlaced(content.objects, "post", content.data.posts,
                   content.slots.blog)
    /\ FirstPlaced(content.objects, "project", content.data.projects,
                   content.slots.projects)
    /\ Len(OfKind(content.objects, "about"))
         = IF content.slots.about # << >> THEN 1 ELSE 0
    /\ Len(content.objects)
         = Len(OfKind(content.objects, "post"))
             + Len(OfKind(content.objects, "project"))
             + Len(OfKind(content.objects, "about"))

\* C24 as stated: placeContentObjects places min(#posts, #blog slots)
\* posts (the first ones, in order), min(#projects, #project slots)
\* projects, and one about object iff an about slot exists.
C24_SlotLimits == content.called => SlotLimitsRespected

\* C24 amended: that holds when data and slots are both given; when
\* either is missing nothing is placed.
C24_SlotLimitsWhenGiven ==
    content.called
      => IF content.data.given /\ content.slots.given
         THEN SlotLimitsRespected
         ELSE content.objects = << >>

\* more posts than blog slots, fewer projects than project slots and an
\* about slot: the excess post is not placed
C24_Witness ==
    /\ content.called
    /\ content.data.given /\ content.slots.given
    /\ Len(content.data.posts) > Len(content.slots.blog)
    /\ Len(content.slots.blog) > 0
    /\ Len(content.data.projects) < Len(content.slots.projects)
    /\ Len(content.data.projects) > 0
    /\ content.slots.about # << >>
    /\ Len(content.objects)
         = Len(content.slots.blog) + Len(content.data.projects) + 1

====
